---- MODULE Spec2Model ----
(***************************************************************************)
(* Model of lutris/util/library_sync.py: the LibrarySyncer that uploads    *)
(* the local game catalog to the remote library and merges the server's    *)
(* answer back (sync_local_library), guarded by the module-level flag      *)
(* _IS_LOCAL_LIBRARY_SYNCING.                                              *)
(*                                                                         *)
(* Representation.  Python None is NoneStr in a text column and NoneNum in *)
(* a numeric one.  Playtime is counted in whole hours; the wire string     *)
(* "%0.5f" % playtime is represented by the integer made of its digits     *)
(* (hours * 100000).  The catalog is the sequence of rows of the games     *)
(* table; a row's id is its position (rows are never deleted here).        *)
(* The setting "last_library_sync_at" is stored as str(int) and read back  *)
(* with int(): it is represented by the integer, NoneNum when unset.       *)
(***************************************************************************)
EXTENDS Integers, Sequences, FiniteSets, TLC

VARIABLES
    flag,                   \* _IS_LOCAL_LIBRARY_SYNCING
    setting,                \* settings "last_library_sync_at"
    games,                  \* the games table of the catalog
    remote,                 \* the list the server answers with (request.json)
    now,                    \* int(time.time())
    calls,                  \* per thread: calls of sync_local_library made so far
    pc,                     \* per thread: position in sync_local_library
    force,                  \* per thread: the force argument
    since,                  \* per thread: local since
    all_games,              \* per thread: local all_games
    local_library,          \* per thread: local local_library
    local_library_updates,  \* per thread: local local_library_updates
    request,                \* per thread: local request (<<>> is None)
    any_local_changes,      \* per thread: local any_local_changes
    game_loaded,            \* per thread: local game, the record loaded by Game(id)
    idx,                    \* per thread: position of the loop over request.json
    json,                   \* per thread: request.json after the POST
    outcome,                \* per thread: how the last call returned
    ev,                     \* per thread: events fired by the current/last call
    posted,                 \* per thread: uploads sent by the current/last call
    wrote,                  \* per thread: setting writes of the current/last call
    clears,                 \* per thread: flag resets of the current/last call
    log,                    \* per thread: what each remote entry did in the call
    prev,                   \* per thread: summary of the call before this one
    deleted,                \* the calls of delete_from_remote_library: count and the last one
    ideal                   \* the catalog the pass cut short last would have left

vars == <<flag, setting, games, remote, now, calls, pc, force, since, all_games,
          local_library, local_library_updates, request, any_local_changes, game_loaded,
          idx, json, outcome, ev, posted, wrote, clears, log, prev, deleted, ideal>>

\* what the other calls leave behind them
others == <<deleted, ideal>>

shared == <<flag, setting, games, remote, now, others>>

store == <<flag, setting, games, remote, others>>

-----------------------------------------------------------------------------
(* Bounds of the model *)

MaxGames == 2

MaxResp == 2

MaxTime == 4

MaxCalls == 2

-----------------------------------------------------------------------------
(* Values *)

NoneStr == "None"

NoneNum == -1

Threads == {1, 2}

MainThread == 1

\* x or "" for a text value
OrStr(x) == IF x = NoneStr THEN "" ELSE x

\* x or 0 for a numeric value
OrNum(x) == IF x = NoneNum THEN 0 ELSE x

\* truth value of a number or None, as in "if since"
Truthy(x) == x # NoneNum /\ x # 0

\* "%0.5f" % hours, as the integer formed by the digits of the string
Fmt5(hours) == hours * 100000

Max(a, b) == IF a > b THEN a ELSE b

SeqsUpTo(S, n) == UNION {[1..k -> S] : k \in 0..n}

-----------------------------------------------------------------------------
(* Record Codec: _db_game_to_api, _db_games_to_api *)

\* self.categories: category id -> name
CategoryNames == [c \in {1} |-> "favorite"]

\* self.games_categories.get(id, [])
GamesCategories(id) == IF id = 1 THEN <<1>> ELSE <<>>

DbGameToApi(db_game) ==
    LET cats == GamesCategories(db_game.id) IN
    [ name       |-> db_game.name,
      slug       |-> db_game.slug,
      runner     |-> OrStr(db_game.runner),
      platform   |-> OrStr(db_game.platform),
      playtime   |-> Fmt5(OrNum(db_game.playtime)),
      lastplayed |-> OrNum(db_game.lastplayed),
      service    |-> OrStr(db_game.service),
      service_id |-> OrStr(db_game.service_id),
      categories |-> [k \in 1..Len(cats) |-> CategoryNames[cats[k]]] ]

\* a different filter: a record is dropped as soon as one of its two
\* timestamps is older than since
SkippedEither(db_game, since_arg) ==
    /\ Truthy(since_arg)
    /\ \/ OrNum(db_game.lastplayed) < since_arg
       \/ OrNum(db_game.installed_at) < since_arg

\* the test of the loop of _db_games_to_api that drops a record
Skipped(db_game, since_arg) ==
    LET lastplayed   == OrNum(db_game.lastplayed)
        installed_at == OrNum(db_game.installed_at)
    IN  Truthy(since_arg) /\ lastplayed < since_arg /\ installed_at < since_arg

RECURSIVE DbGamesToApiFrom(_, _, _)
DbGamesToApiFrom(db_games, since_arg, i) ==
    IF i > Len(db_games) THEN <<>>
    ELSE IF Skipped(db_games[i], since_arg)
         THEN DbGamesToApiFrom(db_games, since_arg, i + 1)
         ELSE <<DbGameToApi(db_games[i])>> \o DbGamesToApiFrom(db_games, since_arg, i + 1)

DbGamesToApi(db_games, since_arg) == DbGamesToApiFrom(db_games, since_arg, 1)

-----------------------------------------------------------------------------
(* The structures built over the full local library, and the merge *)

\* library_key / remote_key: (slug, runner or "", platform or "", service or "")
LibraryKey(game) ==
    <<game.slug, OrStr(game.runner), OrStr(game.platform), OrStr(game.service)>>

LibraryKeys(lib) == {LibraryKey(lib[i]) : i \in 1..Len(lib)}

\* a key is added to duplicate_keys when it is met while already in library_keys
DuplicateKeys(lib) ==
    {LibraryKey(lib[j]) : j \in {j \in 1..Len(lib) :
        \E i \in 1..(j - 1) : LibraryKey(lib[i]) = LibraryKey(lib[j])}}

\* library_map[library_key] = game: the last entry with the key wins
LibraryMap(lib) ==
    [k \in LibraryKeys(lib) |->
        lib[CHOOSE i \in 1..Len(lib) :
                /\ LibraryKey(lib[i]) = k
                /\ \A j \in (i + 1)..Len(lib) : LibraryKey(lib[j]) # k]]

\* no slug is remembered
LibrarySlugsNone(lib) == {}

LibrarySlugs(lib) == {lib[i].slug : i \in 1..Len(lib)}

\* conditions: the slug, plus the non-empty runner/platform/service
Conditions(remote_game) ==
    [f \in {"slug"} \cup {c \in {"runner", "platform", "service"} :
                             remote_game[c] \notin {NoneStr, ""}}
        |-> remote_game[f]]

\* get_games_where(**conditions): the rows equal to every given value
GetGamesWhere(rows, conditions) ==
    SelectSeq(rows, LAMBDA r : \A f \in DOMAIN conditions : r[f] = conditions[f])

\* Game(id): the fields of the row the merge reads
GameOf(row) ==
    [id |-> row.id, playtime |-> OrNum(row.playtime), lastplayed |-> OrNum(row.lastplayed)]

\* record-level last-writer-wins: the newer lastplayed takes both fields
MergedRecordLevel(game, remote_game) ==
    IF remote_game.lastplayed > game.lastplayed
    THEN [playtime |-> remote_game.playtime, lastplayed |-> remote_game.lastplayed,
          changed |-> TRUE]
    ELSE [playtime |-> game.playtime, lastplayed |-> game.lastplayed, changed |-> FALSE]

\* re-saves when the remote value is equal too
MergedOnEqual(game, remote_game) ==
    [ playtime   |-> Max(game.playtime, remote_game.playtime),
      lastplayed |-> Max(game.lastplayed, remote_game.lastplayed),
      changed    |-> \/ remote_game.playtime >= game.playtime
                     \/ remote_game.lastplayed >= game.lastplayed ]

\* the two comparisons of the matched branch
Merged(game, remote_game) ==
    LET pt == remote_game.playtime > game.playtime
        lp == remote_game.lastplayed > game.lastplayed
    IN  [ playtime   |-> IF pt THEN remote_game.playtime ELSE game.playtime,
          lastplayed |-> IF lp THEN remote_game.lastplayed ELSE game.lastplayed,
          changed    |-> pt \/ lp ]

\* the loop body without its two refusals (duplicate key, several matches):
\* the first row of the re-query is taken
DecisionFirstMatch(lib, rows, remote_game) ==
    LET remote_key == LibraryKey(remote_game)
        pga_game   == GetGamesWhere(rows, Conditions(remote_game))
    IN  IF remote_key \in DOMAIN LibraryMap(lib)
        THEN IF Len(pga_game) = 0 THEN [op |-> "nomatch", id |-> 0]
             ELSE IF Merged(GameOf(pga_game[1]), remote_game).changed
                  THEN [op |-> "update", id |-> pga_game[1].id]
                  ELSE [op |-> "same", id |-> pga_game[1].id]
        ELSE IF remote_game.slug \in LibrarySlugs(lib)
             THEN [op |-> "known_slug", id |-> 0]
             ELSE [op |-> "insert", id |-> Len(rows) + 1]

\* the loop body whose slug test reads the table as it is now, rows inserted
\* by this pass included
DecisionLiveSlugs(lib, rows, remote_game) ==
    LET remote_key == LibraryKey(remote_game)
        pga_game   == GetGamesWhere(rows, Conditions(remote_game))
    IN  IF remote_key \in DuplicateKeys(lib) THEN [op |-> "dup", id |-> 0]
        ELSE IF remote_key \in DOMAIN LibraryMap(lib)
        THEN IF Len(pga_game) = 0 THEN [op |-> "nomatch", id |-> 0]
             ELSE IF Len(pga_game) > 1 THEN [op |-> "ambiguous", id |-> 0]
             ELSE IF Merged(GameOf(pga_game[1]), remote_game).changed
                  THEN [op |-> "update", id |-> pga_game[1].id]
                  ELSE [op |-> "same", id |-> pga_game[1].id]
        ELSE IF remote_game.slug \in LibrarySlugs(rows)
             THEN [op |-> "known_slug", id |-> 0]
             ELSE [op |-> "insert", id |-> Len(rows) + 1]

\* the loop body that takes the first row when the re-query returns several
DecisionAmbiguousFirst(lib, rows, remote_game) ==
    LET remote_key == LibraryKey(remote_game)
        pga_game   == GetGamesWhere(rows, Conditions(remote_game))
    IN  IF remote_key \in DuplicateKeys(lib) THEN [op |-> "dup", id |-> 0]
        ELSE IF remote_key \in DOMAIN LibraryMap(lib)
        THEN IF Len(pga_game) = 0 THEN [op |-> "nomatch", id |-> 0]
             ELSE IF Merged(GameOf(pga_game[1]), remote_game).changed
                  THEN [op |-> "update", id |-> pga_game[1].id]
                  ELSE [op |-> "same", id |-> pga_game[1].id]
        ELSE IF remote_game.slug \in LibrarySlugs(lib)
             THEN [op |-> "known_slug", id |-> 0]
             ELSE [op |-> "insert", id |-> Len(rows) + 1]

\* what one iteration of the loop over request.json does with remote_game
Decision(lib, rows, remote_game) ==
    LET remote_key == LibraryKey(remote_game)
        pga_game   == GetGamesWhere(rows, Conditions(remote_game))
    IN  IF remote_key \in DuplicateKeys(lib) THEN [op |-> "dup", id |-> 0]
        ELSE IF remote_key \in DOMAIN LibraryMap(lib)
        THEN IF Len(pga_game) = 0 THEN [op |-> "nomatch", id |-> 0]
             ELSE IF Len(pga_game) > 1 THEN [op |-> "ambiguous", id |-> 0]
             ELSE IF Merged(GameOf(pga_game[1]), remote_game).changed
                  THEN [op |-> "update", id |-> pga_game[1].id]
                  ELSE [op |-> "same", id |-> pga_game[1].id]
        ELSE IF remote_game.slug \in LibrarySlugs(lib)
             THEN [op |-> "known_slug", id |-> 0]
             ELSE [op |-> "insert", id |-> Len(rows) + 1]

\* game.save(): the row gets the merged playtime and lastplayed
SaveGame(rows, id, m) ==
    [rows EXCEPT ![id].playtime = m.playtime, ![id].lastplayed = m.lastplayed]

\* add_game(...): a new row from the remote entry, not installed
AddGame(rows, remote_game, clock) ==
    Append(rows,
        [ id |-> Len(rows) + 1,
          name |-> remote_game.name,
          slug |-> remote_game.slug,
          runner |-> remote_game.runner,
          platform |-> remote_game.platform,
          service |-> remote_game.service,
          service_id |-> remote_game.service_id,
          playtime |-> remote_game.playtime,
          lastplayed |-> remote_game.lastplayed,
          installed_at |-> clock,
          installed |-> 0 ])

\* the iterations that set any_local_changes
MarksChange(op) == op \in {"update", "insert"}

\* the body of "for remote_game in request.json": from the table and
\* any_local_changes before the iteration to the two after it
LoopBody(lib, st, remote_game, clock) ==
    LET d == Decision(lib, st.rows, remote_game) IN
    [ rows |-> CASE d.op = "update" ->
                      SaveGame(st.rows, d.id, Merged(GameOf(st.rows[d.id]), remote_game))
                 [] d.op = "insert" -> AddGame(st.rows, remote_game, clock)
                 [] OTHER -> st.rows,
      any_local_changes |-> st.any_local_changes \/ MarksChange(d.op) ]

RECURSIVE LoopFrom(_, _, _, _, _)

\* the iterations from entry i of the answer to entry upto
LoopFrom(lib, st, answer, i, upto) ==
    IF i > upto THEN st
    ELSE LoopFrom(lib, LoopBody(lib, st, answer[i], st.clock) @@ [clock |-> st.clock],
                  answer, i + 1, upto)

\* a pass over the first upto entries of the answer, from the table rows
Loop(rows, answer, upto, clock) ==
    LoopFrom(DbGamesToApi(rows, NoneNum),
             [rows |-> rows, any_local_changes |-> FALSE, clock |-> clock],
             answer, 1, upto)

-----------------------------------------------------------------------------
(* Initial states *)

NameOf(slug) == IF slug = "foo" THEN "Foo" ELSE "Bar"

Row(slug, runner, playtime, lastplayed, installed_at) ==
    [ id |-> 0, name |-> NameOf(slug), slug |-> slug, runner |-> runner,
      platform |-> NoneStr, service |-> NoneStr, service_id |-> NoneStr,
      playtime |-> playtime, lastplayed |-> lastplayed,
      installed_at |-> installed_at, installed |-> 1 ]

\* rows get their ids from their position in the table
Table(rows) == [i \in 1..Len(rows) |-> [rows[i] EXCEPT !.id = i]]

\* the catalogs a run starts from: games "foo", with or without a runner
InitRows == {Row("foo", r, 2, 2, NoneNum) : r \in {NoneStr, "wine"}}

\* the catalogs the codec is run on: every combination of absent, old and
\* recent timestamps
FilterRows ==
    {Row("foo", NoneStr, pt, lp, ia) :
        pt \in {NoneNum, 2}, lp \in {NoneNum, 1, 2}, ia \in {NoneNum, 1, 2}}

Entry(slug, runner, playtime, lastplayed) ==
    [ name |-> NameOf(slug), slug |-> slug, runner |-> runner, platform |-> "",
      service |-> "", service_id |-> "", playtime |-> playtime,
      lastplayed |-> lastplayed ]

\* the entries of a server answer: the slug "foo" without a runner, a second
\* slug, and "foo" with a runner ahead of the local values in one field and
\* behind in the other
RemoteEntries ==
    {Entry("foo", "", 3, 1), Entry("bar", "wine", 3, 1)} \cup
    {Entry("foo", "wine", v[1], v[2]) : v \in {<<3, 1>>, <<1, 3>>}}

NoEvents == [syncing |-> 0, synced |-> 0, updated |-> 0]

NoCall == [outcome |-> "none", mutated |-> FALSE]

NoGame == [id |-> 0, playtime |-> 0, lastplayed |-> 0]

NoDelete == [n |-> 0, status |-> "none", payload |-> <<>>, result |-> <<>>]

InitLocals ==
    /\ flag = FALSE
    /\ calls = [t \in Threads |-> 0]
    /\ pc = [t \in Threads |-> "idle"]
    /\ force = [t \in Threads |-> FALSE]
    /\ since = [t \in Threads |-> NoneNum]
    /\ all_games = [t \in Threads |-> <<>>]
    /\ local_library = [t \in Threads |-> <<>>]
    /\ local_library_updates = [t \in Threads |-> <<>>]
    /\ request = [t \in Threads |-> <<>>]
    /\ any_local_changes = [t \in Threads |-> FALSE]
    /\ game_loaded = [t \in Threads |-> NoGame]
    /\ idx = [t \in Threads |-> 0]
    /\ json = [t \in Threads |-> <<>>]
    /\ outcome = [t \in Threads |-> "none"]
    /\ ev = [t \in Threads |-> NoEvents]
    /\ posted = [t \in Threads |-> 0]
    /\ wrote = [t \in Threads |-> 0]
    /\ clears = [t \in Threads |-> 0]
    /\ log = [t \in Threads |-> {}]
    /\ prev = [t \in Threads |-> NoCall]
    /\ deleted = NoDelete
    /\ ideal = <<>>

\* two threads, a catalog and an answer of at most one entry each
Init ==
    /\ InitLocals
    /\ games \in {Table(c) : c \in SeqsUpTo(InitRows, 1)}
    /\ remote \in SeqsUpTo(RemoteEntries, 1)
    /\ setting \in {NoneNum, 3}
    /\ now = 3

\* one thread, catalogs of up to MaxGames rows, answers of up to MaxResp entries
InitSeq ==
    /\ InitLocals
    /\ games \in {Table(c) : c \in SeqsUpTo(InitRows, MaxGames)}
    /\ remote \in SeqsUpTo(RemoteEntries, MaxResp)
    /\ setting = NoneNum
    /\ now = 3

\* the codec on catalogs with absent, old and recent timestamps
InitFilter ==
    /\ InitLocals
    /\ games \in {Table(c) : c \in SeqsUpTo(FilterRows, MaxGames)}
    /\ remote = <<>>
    /\ setting \in {NoneNum} \cup (0..3)
    /\ now = 3

-----------------------------------------------------------------------------
(* sync_local_library, step by step *)

\* a flag that always reads as clear
NeverSyncing == FALSE

\* is_local_library_syncing() / the test "if _IS_LOCAL_LIBRARY_SYNCING"
IsLocalLibrarySyncing == flag

Mutated(t) == \E l \in log[t] : l.op \in {"update", "insert"}

\* a call starts with fresh locals, some time after the call before it; what
\* the call before did is kept in prev
StartCall(t) ==
    /\ pc[t] = "idle"
    /\ calls[1] + calls[2] + deleted.n < MaxCalls
    /\ calls' = [calls EXCEPT ![t] = @ + 1]
    /\ now' \in now..MaxTime
    /\ prev' = [prev EXCEPT ![t] = [outcome |-> outcome[t], mutated |-> Mutated(t)]]
    /\ ev' = [ev EXCEPT ![t] = NoEvents]
    /\ posted' = [posted EXCEPT ![t] = 0]
    /\ wrote' = [wrote EXCEPT ![t] = 0]
    /\ clears' = [clears EXCEPT ![t] = 0]
    /\ log' = [log EXCEPT ![t] = {}]
    /\ request' = [request EXCEPT ![t] = <<>>]
    /\ any_local_changes' = [any_local_changes EXCEPT ![t] = FALSE]
    /\ game_loaded' = [game_loaded EXCEPT ![t] = NoGame]
    /\ idx' = [idx EXCEPT ![t] = 0]
    /\ json' = [json EXCEPT ![t] = <<>>]

\* the stored checkpoint is used even when the pass is forced
SinceOfStored(force_arg, stored) == stored

\* the since of a pass: the stored checkpoint unless forced or unset
SinceOf(force_arg, stored) ==
    IF ~force_arg /\ stored # NoneNum THEN stored ELSE NoneNum

\* _get_request: None without credentials, else the request with its since query
GetRequest(since_arg, credentials) ==
    IF ~credentials THEN <<>>
    ELSE <<IF Truthy(since_arg) THEN since_arg ELSE NoneNum>>

\* called while the flag is set: return at once
SyncBusy(t) ==
    /\ IsLocalLibrarySyncing
    /\ StartCall(t)
    /\ \E f \in BOOLEAN : force' = [force EXCEPT ![t] = f]
    /\ pc' = pc
    /\ outcome' = [outcome EXCEPT ![t] = "noop"]
    /\ since' = [since EXCEPT ![t] = NoneNum]
    /\ all_games' = [all_games EXCEPT ![t] = <<>>]
    /\ local_library' = [local_library EXCEPT ![t] = <<>>]
    /\ local_library_updates' = [local_library_updates EXCEPT ![t] = <<>>]
    /\ UNCHANGED store

\* the flag is clear: the call goes on
SyncEnter(t) ==
    /\ ~IsLocalLibrarySyncing
    /\ StartCall(t)
    /\ \E f \in BOOLEAN : force' = [force EXCEPT ![t] = f]
    /\ since' = [since EXCEPT ![t] = NoneNum]
    /\ all_games' = [all_games EXCEPT ![t] = <<>>]
    /\ local_library' = [local_library EXCEPT ![t] = <<>>]
    /\ local_library_updates' = [local_library_updates EXCEPT ![t] = <<>>]
    /\ pc' = [pc EXCEPT ![t] = "read"]
    /\ outcome' = [outcome EXCEPT ![t] = "running"]
    /\ UNCHANGED store

history == <<calls, outcome, ev, posted, wrote, clears, log, prev>>

locals == <<force, since, all_games, local_library, local_library_updates,
            request, any_local_changes, game_loaded, idx, json>>

\* since = int(read_setting(...)) unless forced or unset
ReadSetting(t) ==
    /\ pc[t] = "read"
    /\ since' = [since EXCEPT ![t] = SinceOf(force[t], setting)]
    /\ pc' = [pc EXCEPT ![t] = "load"]
    /\ UNCHANGED <<shared, history, force, all_games, local_library,
                   local_library_updates, request, any_local_changes, game_loaded, idx, json>>

\* all_games = get_games(), and its two encodings
GetGames(t) ==
    /\ pc[t] = "load"
    /\ all_games' = [all_games EXCEPT ![t] = games]
    /\ local_library' = [local_library EXCEPT ![t] = DbGamesToApi(games, NoneNum)]
    /\ local_library_updates' =
          [local_library_updates EXCEPT ![t] = DbGamesToApi(games, since[t])]
    /\ pc' = [pc EXCEPT ![t] = "request"]
    /\ UNCHANGED <<shared, history, force, since, request, any_local_changes, game_loaded,
                   idx, json>>

\* no credentials: return before anything is fired
GetRequestNone(t) ==
    /\ pc[t] = "request"
    /\ request' = [request EXCEPT ![t] = GetRequest(since[t], FALSE)]
    /\ pc' = [pc EXCEPT ![t] = "idle"]
    /\ outcome' = [outcome EXCEPT ![t] = "nocred"]
    /\ UNCHANGED <<shared, calls, ev, posted, wrote, clears, log, prev, force, since,
                   all_games, local_library, local_library_updates,
                   any_local_changes, game_loaded, idx, json>>

GetRequestOk(t) ==
    /\ pc[t] = "request"
    /\ request' = [request EXCEPT ![t] = GetRequest(since[t], TRUE)]
    /\ pc' = [pc EXCEPT ![t] = "fire"]
    /\ UNCHANGED <<shared, history, force, since, all_games, local_library,
                   local_library_updates, any_local_changes, game_loaded, idx, json>>

\* LOCAL_LIBRARY_SYNCING.fire(); any_local_changes = False
FireSyncing(t) ==
    /\ pc[t] = "fire"
    /\ ev' = [ev EXCEPT ![t].syncing = @ + 1]
    /\ any_local_changes' = [any_local_changes EXCEPT ![t] = FALSE]
    /\ pc' = [pc EXCEPT ![t] = "set"]
    /\ UNCHANGED <<shared, calls, outcome, posted, wrote, clears, log, prev, force,
                   since, all_games, local_library, local_library_updates, request,
                   game_loaded, idx, json>>

\* _IS_LOCAL_LIBRARY_SYNCING = True
SetFlag(t) ==
    /\ pc[t] = "set"
    /\ flag' = TRUE
    /\ pc' = [pc EXCEPT ![t] = "post"]
    /\ UNCHANGED <<setting, games, remote, now, others, history, locals>>

\* request.post raises http.HTTPError
PostFail(t) ==
    /\ pc[t] = "post"
    /\ posted' = [posted EXCEPT ![t] = @ + 1]
    /\ outcome' = [outcome EXCEPT ![t] = "http_error"]
    /\ pc' = [pc EXCEPT ![t] = "finally"]
    /\ UNCHANGED <<shared, calls, ev, wrote, clears, log, prev, locals>>

\* request.post succeeds; request.json is the server's answer
PostOk(t) ==
    /\ pc[t] = "post"
    /\ posted' = [posted EXCEPT ![t] = @ + 1]
    /\ json' = [json EXCEPT ![t] = remote]
    /\ idx' = [idx EXCEPT ![t] = 1]
    /\ pc' = [pc EXCEPT ![t] = "loop"]
    /\ UNCHANGED <<shared, calls, outcome, ev, wrote, clears, log, prev, force, since,
                   all_games, local_library, local_library_updates, request,
                   any_local_changes, game_loaded>>

\* an iteration of "for remote_game in request.json" up to the re-query: the
\* entry is refused, skipped or inserted, or its one row is kept for the merge
ProcessEntry(t) ==
    /\ pc[t] = "loop"
    /\ idx[t] <= Len(json[t])
    /\ LET remote_game == json[t][idx[t]]
           d == Decision(local_library[t], games, remote_game)
           st == LoopBody(local_library[t],
                          [rows |-> games, any_local_changes |-> any_local_changes[t]],
                          remote_game, now)
       IN  IF d.op \in {"update", "same"}
           THEN /\ game_loaded' = [game_loaded EXCEPT ![t] = [NoGame EXCEPT !.id = d.id]]
                /\ pc' = [pc EXCEPT ![t] = "game"]
                /\ UNCHANGED <<games, any_local_changes, log, idx>>
           ELSE /\ games' = st.rows
                /\ any_local_changes' =
                      [any_local_changes EXCEPT ![t] = st.any_local_changes]
                /\ log' = [log EXCEPT ![t] = @ \cup
                      {[ i |-> idx[t], op |-> d.op, id |-> d.id, remote |-> remote_game,
                         before |-> <<0, 0>>,
                         after |-> IF d.op = "insert"
                                   THEN <<remote_game.playtime, remote_game.lastplayed>>
                                   ELSE <<0, 0>> ]}]
                /\ idx' = [idx EXCEPT ![t] = @ + 1]
                /\ UNCHANGED <<pc, game_loaded>>
    /\ UNCHANGED <<flag, setting, remote, now, others, calls, outcome, ev, posted, wrote,
                   clears, prev, force, since, all_games, local_library,
                   local_library_updates, request, json>>

\* game = Game(pga_game["id"]): the row as it is in the table now
LoadGame(t) ==
    /\ pc[t] = "game"
    /\ game_loaded' = [game_loaded EXCEPT ![t] = GameOf(games[game_loaded[t].id])]
    /\ pc' = [pc EXCEPT ![t] = "merge"]
    /\ UNCHANGED <<shared, history, force, since, all_games, local_library,
                   local_library_updates, request, any_local_changes, idx, json>>

\* the two comparisons on the loaded record; if changed, any_local_changes is
\* set and game.save() writes the loaded record with its new values
MergeEntry(t) ==
    /\ pc[t] = "merge"
    /\ LET remote_game == json[t][idx[t]]
           m == Merged(game_loaded[t], remote_game)
           op == IF m.changed THEN "update" ELSE "same"
       IN  /\ games' = IF m.changed THEN SaveGame(games, game_loaded[t].id, m) ELSE games
           /\ any_local_changes' =
                 [any_local_changes EXCEPT ![t] = @ \/ MarksChange(op)]
           /\ log' = [log EXCEPT ![t] = @ \cup
                 {[ i |-> idx[t], op |-> op, id |-> game_loaded[t].id, remote |-> remote_game,
                    before |-> <<game_loaded[t].playtime, game_loaded[t].lastplayed>>,
                    after |-> <<m.playtime, m.lastplayed>> ]}]
    /\ idx' = [idx EXCEPT ![t] = @ + 1]
    /\ pc' = [pc EXCEPT ![t] = "loop"]
    /\ UNCHANGED <<flag, setting, remote, now, others, calls, outcome, ev, posted, wrote,
                   clears, prev, force, since, all_games, local_library,
                   local_library_updates, request, json, game_loaded>>

\* an exception raised inside an iteration (an entry without one of its
\* fields, a failing query, save() or add_game raising): nothing catches it,
\* the finally block runs and the rest of the try block is skipped.  Raised by
\* save() or by add_game and its arguments, it comes after any_local_changes
\* was set and before the table changed
LoopError(t) ==
    /\ \/ pc[t] = "loop" /\ idx[t] <= Len(json[t])
       \/ pc[t] \in {"game", "merge"}
    /\ LET remote_game == json[t][idx[t]]
           marked ==
              \/ /\ pc[t] = "loop"
                 /\ Decision(local_library[t], games, remote_game).op = "insert"
              \/ /\ pc[t] = "merge"
                 /\ Merged(game_loaded[t], remote_game).changed
       IN  \E after_mark \in {FALSE, marked} :
              any_local_changes' = [any_local_changes EXCEPT ![t] = @ \/ after_mark]
    /\ outcome' = [outcome EXCEPT ![t] = "loop_error"]
    /\ pc' = [pc EXCEPT ![t] = "finally"]
    /\ UNCHANGED <<shared, calls, ev, posted, wrote, clears, log, prev, force, since,
                   all_games, local_library, local_library_updates, request, game_loaded,
                   idx, json>>

\* the checkpoint written from inside the loop, whatever is left of the answer
WriteSettingEarly(t) ==
    /\ pc[t] = "loop"
    /\ setting' = now
    /\ wrote' = [wrote EXCEPT ![t] = @ + 1]
    /\ outcome' = [outcome EXCEPT ![t] = "synced"]
    /\ pc' = [pc EXCEPT ![t] = "finally"]
    /\ UNCHANGED <<flag, games, remote, now, others, calls, ev, posted, clears, log,
                   prev, locals>>

\* settings.write_setting("last_library_sync_at", int(time.time()))
WriteSetting(t) ==
    /\ pc[t] = "loop"
    /\ idx[t] > Len(json[t])
    /\ setting' = now
    /\ wrote' = [wrote EXCEPT ![t] = @ + 1]
    /\ outcome' = [outcome EXCEPT ![t] = "synced"]
    /\ pc' = [pc EXCEPT ![t] = "finally"]
    /\ UNCHANGED <<flag, games, remote, now, others, calls, ev, posted, clears, log,
                   prev, locals>>

\* "sync finished" only after a pass that changed something
FinallyEventsOnChange(e, any) ==
    IF any THEN [e EXCEPT !.synced = @ + 1, !.updated = @ + 1] ELSE e

\* "data updated" after every pass
FinallyEventsBoth(e, any) == [e EXCEPT !.synced = @ + 1, !.updated = @ + 1]

\* LOCAL_LIBRARY_SYNCED.fire(), and LOCAL_LIBRARY_UPDATED.fire() if any_local_changes
FinallyEvents(e, any) ==
    [e EXCEPT !.synced = @ + 1, !.updated = IF any THEN @ + 1 ELSE @]

\* the finally block
Finally(t) ==
    /\ pc[t] = "finally"
    /\ flag' = FALSE
    /\ clears' = [clears EXCEPT ![t] = @ + 1]
    /\ ev' = [ev EXCEPT ![t] = FinallyEvents(@, any_local_changes[t])]
    /\ pc' = [pc EXCEPT ![t] = "idle"]
    /\ UNCHANGED <<setting, games, remote, now, others, calls, outcome, posted, wrote,
                   log, prev, locals>>

\* a call of sync_local_library in which no iteration of the loop raises
Run(t) ==
    \/ SyncEnter(t)
    \/ ReadSetting(t)
    \/ GetGames(t)
    \/ GetRequestNone(t)
    \/ GetRequestOk(t)
    \/ FireSyncing(t)
    \/ SetFlag(t)
    \/ PostFail(t)
    \/ PostOk(t)
    \/ ProcessEntry(t)
    \/ LoadGame(t)
    \/ MergeEntry(t)
    \/ WriteSetting(t)
    \/ Finally(t)

-----------------------------------------------------------------------------
(* delete_from_remote_library, and the process killed during a pass *)

\* the server's answer to the DELETE request
DeleteAnswer == "deleted"

\* the answer is returned whatever happened
DeleteReturnAlways(request_arg, http_ok, answer) == <<answer>>

\* what delete_from_remote_library returns (<<>> is None): nothing without a
\* request, None after http.HTTPError, else request.json
DeleteReturn(request_arg, http_ok, answer) ==
    IF request_arg = <<>> THEN <<>>
    ELSE IF ~http_ok THEN <<>>
    ELSE <<answer>>

\* delete_from_remote_library(games) with some rows of the table
DeleteFromRemoteLibrary(t) ==
    /\ pc[t] = "idle"
    /\ calls[1] + calls[2] + deleted.n < MaxCalls
    /\ \E n \in 0..Len(games), credentials \in BOOLEAN, http_ok \in BOOLEAN :
        LET request_arg == GetRequest(NoneNum, credentials) IN
        deleted' =
            [ n |-> deleted.n + 1,
              status |-> IF request_arg = <<>> THEN "nocred"
                         ELSE IF http_ok THEN "ok" ELSE "http_error",
              payload |-> IF request_arg = <<>> THEN <<>>
                          ELSE DbGamesToApi(SubSeq(games, 1, n), NoneNum),
              result |-> DeleteReturn(request_arg, http_ok, DeleteAnswer) ]
    /\ UNCHANGED <<flag, setting, games, remote, now, ideal, history, pc, locals>>

\* the process is killed while the loop runs and started again: the flag is
\* back to its initial False, nothing of the finally block has run; ideal
\* keeps what the pass would have left had it run to its end
Crash(t) ==
    /\ pc[t] \in {"loop", "game", "merge"}
    /\ flag' = FALSE
    /\ pc' = [u \in Threads |-> "idle"]
    /\ outcome' = [u \in Threads |-> IF pc[u] = "idle" THEN outcome[u] ELSE "crashed"]
    /\ ideal' = Loop(all_games[t], json[t], Len(json[t]), now).rows
    /\ UNCHANGED <<setting, games, remote, now, deleted, calls, ev, posted, wrote,
                   clears, log, prev, locals>>

\* sync_local_library and delete_from_remote_library called from two threads
Next ==
    \/ \E t \in Threads : SyncBusy(t)
    \/ \E t \in Threads : Run(t)
    \/ \E t \in Threads : LoopError(t)
    \/ \E t \in Threads : DeleteFromRemoteLibrary(t)

Spec == Init /\ [][Next]_vars

\* passes run one after the other on one thread, none cut short in the loop
NextSeq == Run(MainThread)

SpecSeq == InitSeq /\ [][NextSeq]_vars

\* passes, passes cut short by an exception or a kill, and deletions, one
\* after the other on one thread
NextAll ==
    \/ Run(MainThread)
    \/ LoopError(MainThread)
    \/ DeleteFromRemoteLibrary(MainThread)
    \/ Crash(MainThread)

SpecAll == InitSeq /\ [][NextAll]_vars

\* the entry of a pass alone: the codec applied to the catalog
NextFilter ==
    \/ SyncEnter(MainThread)
    \/ ReadSetting(MainThread)
    \/ GetGames(MainThread)

SpecFilter == InitFilter /\ [][NextFilter]_vars

\* two threads on one record, the answer holding up to MaxResp entries for it
InitRace ==
    /\ InitLocals
    /\ games = Table(<<Row("foo", "wine", 2, 2, NoneNum)>>)
    /\ remote \in SeqsUpTo({Entry("foo", "wine", v[1], v[2]) : v \in {<<3, 1>>, <<1, 3>>}},
                            MaxResp)
    /\ setting = NoneNum
    /\ now = 3

SpecRace == InitRace /\ [][Next]_vars

-----------------------------------------------------------------------------
(* Properties *)

Returned(t) == pc[t] = "idle"

Active(t) == pc[t] # "idle"

\* C1: a call made while the in-progress flag is true returns at once as a
\* no-op: no HTTP request, none of the three events, no catalog update or
\* insert, no checkpoint write, and the flag stays true.
C1_BusyCallIsNoOp ==
    [][\A t \in Threads :
        (flag /\ calls'[t] # calls[t]) =>
            /\ pc'[t] = "idle"
            /\ outcome'[t] = "noop"
            /\ flag'
            /\ posted'[t] = 0
            /\ ev'[t] = NoEvents
            /\ log'[t] = {}
            /\ wrote'[t] = 0
            /\ games' = games
            /\ setting' = setting]_vars

C1_Witness ==
    \E t \in Threads : calls[t] > 0 /\ Returned(t) /\ outcome[t] = "noop" /\ flag

\* C2: with triggers from several threads, two passes are never both between
\* the entry check and the cleanup step.
C2_AtMostOnePassActive ==
    \A t1, t2 \in Threads : (Active(t1) /\ Active(t2)) => t1 = t2

\* C3, as claimed: every call that got past the in-progress check, the one
\* that returns for lack of credentials included, has cleared the flag and
\* fired "sync finished" exactly once when it returns.
C3_CleanupOnEveryExit ==
    \A t \in Threads :
        (Returned(t) /\ outcome[t] \in {"nocred", "http_error", "synced"}) =>
            (clears[t] = 1 /\ ev[t].synced = 1)

\* C3, amended: every call that fired "syncing started" (it had credentials)
\* has cleared the flag and fired "sync finished" exactly once when it
\* returns, after an upload error as after a completed loop; the call that
\* returns for lack of credentials fires no event and does not touch the flag.
C3_CleanupOnceStarted ==
    \A t \in Threads :
        Returned(t) =>
            /\ outcome[t] \in {"http_error", "synced"} =>
                  (ev[t].syncing = 1 /\ clears[t] = 1 /\ ev[t].synced = 1)
            /\ outcome[t] = "nocred" => (ev[t] = NoEvents /\ clears[t] = 0)

C3_Witness ==
    /\ \E t \in Threads :
          Returned(t) /\ outcome[t] = "http_error" /\ clears[t] = 1 /\ ev[t].synced = 1
    /\ \E t \in Threads : Returned(t) /\ outcome[t] = "nocred" /\ ev[t] = NoEvents

\* C4: a pass whose upload fails with a transport error ends with the
\* checkpoint never written, no catalog record updated or inserted, "sync
\* finished" fired, "data updated" not fired, and the flag false.
C4_UploadErrorAborts ==
    [][\A t \in Threads :
        (outcome[t] = "http_error" /\ Active(t) /\ pc'[t] = "idle") =>
            /\ ~flag'
            /\ setting' = setting
            /\ games' = games
            /\ wrote'[t] = 0
            /\ log'[t] = {}
            /\ ev'[t].synced = 1
            /\ ev'[t].updated = 0]_vars

C4_Witness ==
    \E t \in Threads :
        /\ Returned(t) /\ outcome[t] = "http_error" /\ posted[t] = 1
        /\ ~flag /\ wrote[t] = 0 /\ ev[t].synced = 1

\* C5: max-wins per field: every merge of a remote entry into a local record
\* leaves playtime >= max(local before, remote) and lastplayed >= max(local
\* before, remote), each field on its own; local (2, 2) merged with remote
\* (3, 1) gives (3, 2), and "data updated" fires at the end of that pass.
C5_MaxWinsPerField ==
    \A t \in Threads : \A l \in log[t] :
        l.op \in {"update", "same"} =>
            /\ l.after[1] >= Max(l.before[1], l.remote.playtime)
            /\ l.after[2] >= Max(l.before[2], l.remote.lastplayed)
            /\ (l.before = <<2, 2>> /\ l.remote.playtime = 3 /\ l.remote.lastplayed = 1)
                  => (l.after = <<3, 2>> /\ (Returned(t) => ev[t].updated = 1))
            /\ Active(t) =>
                  /\ games[l.id].playtime >= l.after[1]
                  /\ games[l.id].lastplayed >= l.after[2]

C5_Witness ==
    \E l \in log[MainThread] :
        /\ l.op = "update" /\ l.before = <<2, 2>>
        /\ l.remote.playtime = 3 /\ l.remote.lastplayed = 1
        /\ l.after = <<3, 2>>
        /\ Returned(MainThread) /\ ev[MainThread].updated = 1

\* two rows of the catalog carry the identity key k
SharedKey(rows, k) ==
    \E i, j \in 1..Len(rows) :
        i # j /\ LibraryKey(rows[i]) = k /\ LibraryKey(rows[j]) = k

\* C6: duplicate safety: when two local records share an identity key at the
\* start of a pass, no remote entry with that key causes a catalog update or
\* insert in that pass, wherever it stands in the answer.
C6_DuplicateKeyNeverApplied ==
    \A t \in Threads : \A l \in log[t] :
        SharedKey(all_games[t], LibraryKey(l.remote)) => l.op \notin {"update", "insert"}

C6_Witness ==
    \E l \in log[MainThread] :
        /\ SharedKey(all_games[MainThread], LibraryKey(l.remote))
        /\ l.op = "dup"
        /\ l.i = 2

\* C7: new-record dedup: a remote entry whose slug is the slug of a record of
\* the local catalog (as loaded by the pass) while its identity key matches
\* none is never inserted; a record is inserted only for a slug that catalog
\* does not hold.
C7_KnownSlugNeverInserted ==
    \A t \in Threads : \A l \in log[t] :
        LET slugs == {all_games[t][i].slug : i \in 1..Len(all_games[t])}
            keys  == {LibraryKey(all_games[t][i]) : i \in 1..Len(all_games[t])}
        IN  /\ (l.remote.slug \in slugs /\ LibraryKey(l.remote) \notin keys)
                  => l.op = "known_slug"
            /\ l.op = "insert" => l.remote.slug \notin slugs

C7_Witness ==
    /\ \E l \in log[MainThread] : l.op = "known_slug"
    /\ \E l \in log[MainThread] : l.op = "insert"

\* C8: idempotence: a pass that follows a completed pass against the same
\* remote entries performs no catalog update or insert and does not fire
\* "data updated".
C8_SecondPassChangesNothing ==
    \A t \in Threads :
        prev[t].outcome = "synced" => (~Mutated(t) /\ ev[t].updated = 0)

C8_Witness ==
    /\ prev[MainThread].outcome = "synced"
    /\ prev[MainThread].mutated
    /\ Returned(MainThread)
    /\ outcome[MainThread] = "synced"
    /\ Cardinality(log[MainThread]) = MaxResp
    /\ \E l \in log[MainThread] : l.op = "same"

\* the records _db_games_to_api must keep: all of them without a checkpoint,
\* else those with lastplayed or installed_at (absent is 0) at or after it
KeptRows(rows, T) ==
    SelectSeq(rows, LAMBDA g :
        LET lp == IF g.lastplayed = NoneNum THEN 0 ELSE g.lastplayed
            ia == IF g.installed_at = NoneNum THEN 0 ELSE g.installed_at
        IN  T = NoneNum \/ ~(lp < T /\ ia < T))

\* C9: filter correctness: _db_games_to_api(records, since=T) leaves out
\* exactly the records with lastplayed < T and installed_at < T and returns
\* the encoding of the others in their order; without since it returns all.
C9_FilterCorrect ==
    \A t \in Threads :
        pc[t] = "request" =>
            LET kept == KeptRows(all_games[t], since[t]) IN
            /\ local_library_updates[t] = [i \in 1..Len(kept) |-> DbGameToApi(kept[i])]
            /\ local_library[t] =
                  [i \in 1..Len(all_games[t]) |-> DbGameToApi(all_games[t][i])]
            /\ since[t] = NoneNum => local_library_updates[t] = local_library[t]

C9_Witness ==
    /\ pc[MainThread] = "request"
    /\ since[MainThread] = 2
    /\ Len(all_games[MainThread]) = 2
    /\ Len(local_library_updates[MainThread]) = 1
    /\ local_library_updates[MainThread][1] = local_library[MainThread][2]

\* C10: "data updated" is fired at the end of a pass exactly when the pass
\* made at least one catalog update or insert; a pass whose entries were all
\* skipped or left unchanged fires "sync finished" alone.
C10_UpdatedIffMutated ==
    \A t \in Threads :
        (Returned(t) /\ outcome[t] \in {"http_error", "loop_error", "synced"}) =>
            /\ ev[t].updated = (IF Mutated(t) THEN 1 ELSE 0)
            /\ ev[t].synced = 1

\* C11: the in-progress flag is false at startup and true exactly while a
\* pass is executing: true at every step from the moment the pass is past its
\* entry check (while the catalog is loaded and encoded, when "syncing
\* started" is fired, when the upload is sent) until the cleanup step, and
\* false at every other time.
C11_FlagTrueExactlyDuringPass ==
    flag <=> (\E t \in Threads : Active(t))

\* C12: delete_from_remote_library changes no local state on any outcome
\* (success, transport error, no credentials): the catalog, the checkpoint
\* and the in-progress flag are as before and no lifecycle event is fired;
\* it returns the server's answer on success and no value on a transport
\* error (and none without credentials).
C12_DeleteMutatesNothing ==
    [][deleted' # deleted =>
        /\ games' = games
        /\ setting' = setting
        /\ flag' = flag
        /\ ev' = ev
        /\ deleted'.status \in {"ok", "http_error", "nocred"}
        /\ deleted'.status = "ok" => deleted'.result = <<DeleteAnswer>>
        /\ deleted'.status \in {"http_error", "nocred"} => deleted'.result = <<>>]_vars

C12_Witness ==
    /\ deleted.status = "http_error"
    /\ deleted.result = <<>>
    /\ Len(deleted.payload) = 1
    /\ flag
    /\ \E t \in Threads : pc[t] = "loop" /\ ev[t].syncing = 1

\* C13: within one pass the checkpoint is written at most once, only after
\* the upload succeeded and every entry of the answer was processed (all
\* updates and inserts come before the write), and before "sync finished" is
\* fired; a call that returns any other way (no-op while a pass is in
\* progress, no credentials, upload error, error inside the loop) has not
\* written it, and nothing else changes the checkpoint.
C13_CheckpointOnlyAfterFullPass ==
    [][/\ \A t \in Threads :
            /\ (wrote'[t] # wrote[t] /\ calls'[t] = calls[t]) =>
                  /\ wrote[t] = 0 /\ wrote'[t] = 1
                  /\ posted[t] = 1 /\ outcome[t] = "running"
                  /\ idx[t] = Len(json[t]) + 1
                  /\ {l.i : l \in log[t]} = 1..Len(json[t])
                  /\ ev[t].synced = 0 /\ pc'[t] = "finally"
            /\ (wrote[t] = 1 /\ calls'[t] = calls[t]) =>
                  (log'[t] = log[t] /\ wrote'[t] = 1)
            /\ (pc'[t] = "idle" /\ (pc[t] # "idle" \/ calls'[t] # calls[t])) =>
                  /\ outcome'[t] \in {"noop", "nocred", "http_error", "loop_error"}
                        => wrote'[t] = 0
                  /\ outcome'[t] = "synced" => wrote'[t] = 1
       /\ setting' # setting =>
            \E t \in Threads : wrote'[t] = wrote[t] + 1 /\ setting' = now]_vars

C13_Witness ==
    \E t, u \in Threads :
        /\ Returned(t) /\ outcome[t] = "synced" /\ wrote[t] = 1 /\ Mutated(t)
        /\ ev[t].synced = 1 /\ setting = now
        /\ Returned(u) /\ outcome[u] = "loop_error" /\ wrote[u] = 0 /\ ev[u].synced = 1

\* C14: choice of since: a pass that is forced, or finds no stored
\* checkpoint, uploads the encoding of every local record with a request that
\* carries no since parameter; a pass that is not forced and finds the stored
\* checkpoint T uploads exactly the encodings of the records with
\* lastplayed >= T or installed_at >= T and sends since=T.
C14_SinceChoice ==
    \A t \in Threads :
        (pc[t] = "loop" /\ posted[t] = 1) =>
            LET T == setting
                recent == SelectSeq(all_games[t], LAMBDA g :
                              OrNum(g.lastplayed) >= T \/ OrNum(g.installed_at) >= T)
            IN  /\ (force[t] \/ T = NoneNum) =>
                      /\ local_library_updates[t] =
                            [i \in 1..Len(all_games[t]) |-> DbGameToApi(all_games[t][i])]
                      /\ request[t] = <<NoneNum>>
                /\ (~force[t] /\ T # NoneNum) =>
                      /\ local_library_updates[t] =
                            [i \in 1..Len(recent) |-> DbGameToApi(recent[i])]
                      /\ request[t] = <<T>>

C14_Witness ==
    /\ pc[MainThread] = "loop" /\ posted[MainThread] = 1
    /\ ~force[MainThread] /\ setting = 3
    /\ request[MainThread] = <<3>>
    /\ Len(all_games[MainThread]) = 2
    /\ Len(local_library_updates[MainThread]) = 1
    /\ local_library_updates[MainThread][1] = DbGameToApi(all_games[MainThread][2])

\* C15: no regression: over sync passes and remote deletions, whatever the
\* server answers (several entries for one key included), no step lowers the
\* playtime or the lastplayed of a local record or removes a record: every
\* row stays in its place with its identity.
C15_NoRegression ==
    [][/\ Len(games') >= Len(games)
       /\ \A i \in 1..Len(games) :
            /\ games'[i].id = games[i].id
            /\ LibraryKey(games'[i]) = LibraryKey(games[i])
            /\ games'[i].playtime >= games[i].playtime
            /\ games'[i].lastplayed >= games[i].lastplayed]_vars

\* C16: data inconsistency contained: when the re-query for a remote entry
\* whose key is in the library returns no record or more than one, the
\* iteration changes nothing in the catalog and the loop goes on to the next
\* entry; the entries after it are processed, and the pass writes the
\* checkpoint once every entry of the answer has had its iteration.
C16_BadRequeryContained ==
    [][\A t \in Threads :
        /\ (/\ pc[t] = "loop" /\ idx[t] <= Len(json[t])
            /\ (idx'[t] # idx[t] \/ pc'[t] # pc[t])
            /\ LibraryKey(json[t][idx[t]]) \in LibraryKeys(local_library[t])
            /\ Len(GetGamesWhere(games, Conditions(json[t][idx[t]]))) # 1) =>
                /\ games' = games
                /\ any_local_changes'[t] = any_local_changes[t]
                /\ idx'[t] = idx[t] + 1
                /\ pc'[t] = "loop"
        /\ (pc[t] = "loop" /\ idx[t] > Len(json[t]) /\ pc'[t] # pc[t]) =>
                /\ {l.i : l \in log[t]} = 1..Len(json[t])
                /\ wrote'[t] = 1
                /\ pc'[t] = "finally"]_vars

C16_Witness ==
    /\ Returned(MainThread) /\ outcome[MainThread] = "synced"
    /\ wrote[MainThread] = 1 /\ setting = now
    /\ ev[MainThread] = [syncing |-> 1, synced |-> 1, updated |-> 1]
    /\ \E l1, l2 \in log[MainThread] :
          l1.op = "ambiguous" /\ l1.i = 1 /\ l2.i = 2 /\ l2.op = "update"

\* the catalog as a multiset of (identity key, playtime, lastplayed)
Content(rows) ==
    LET item(r) == <<LibraryKey(r), r.playtime, r.lastplayed>> IN
    [x \in {item(rows[i]) : i \in 1..Len(rows)} |->
        Cardinality({i \in 1..Len(rows) : item(rows[i]) = x})]

\* C17: crash safety: when a pass is cut short inside the loop (some entries
\* applied, checkpoint not advanced, flag reset by the restart) and the pass
\* is run again with the old checkpoint against the same answer, the catalog
\* ends as one uninterrupted pass would have left it.
C17_RerunAfterCrashSameCatalog ==
    (/\ prev[MainThread].outcome = "crashed"
     /\ Returned(MainThread)
     /\ outcome[MainThread] = "synced") => Content(games) = Content(ideal)

\* C18: a single pass never creates duplicates: it inserts at most one new
\* record per slug (and per identity key), even when the answer holds several
\* entries with the same unknown slug or key, so a pass that started on a
\* catalog without duplicate identity keys ends on one without.
C18_NoDuplicateCreated ==
    \A t \in Threads :
        /\ \A l1, l2 \in log[t] :
              (l1.op = "insert" /\ l2.op = "insert" /\ l1.remote.slug = l2.remote.slug)
                  => l1 = l2
        /\ (outcome[t] \in {"running", "synced"} /\ DuplicateKeys(all_games[t]) = {})
              => DuplicateKeys(games) = {}

\* C19: an update targets the matching record: whenever a pass changes the
\* playtime or the lastplayed of a local record because of a remote entry,
\* the identity key of that record equals the key of the entry.
C19_UpdateTargetsMatchingKey ==
    \A t \in Threads : \A l \in log[t] :
        l.op = "update" =>
            /\ l.id \in 1..Len(games)
            /\ LibraryKey(games[l.id]) = LibraryKey(l.remote)
            /\ l.after # l.before

C19_Witness ==
    \E l \in log[MainThread] :
        /\ l.op = "update" /\ l.id = 2 /\ l.remote.runner = "wine"
        /\ LibraryKey(games[1]) # LibraryKey(l.remote)
        /\ games[1].slug = l.remote.slug
        /\ LibraryKey(games[2]) = LibraryKey(l.remote)

\* the orders in which the entries of an answer can come
Orders(answer) ==
    LET n == Len(answer)
        bij == {p \in [1..n -> 1..n] : \A i, j \in 1..n : p[i] = p[j] => i = j}
    IN  {[i \in 1..n |-> answer[p[i]]] : p \in bij}

\* C20: order independence: the same remote entries processed in any order
\* leave the same catalog, as a multiset of records by identity key, playtime
\* and lastplayed, and the same decision to fire "data updated".
C20_OrderIndependent ==
    \A t \in Threads :
        (pc[t] = "finally" /\ outcome[t] = "synced") =>
            \A answer \in Orders(json[t]) :
                LET st == Loop(all_games[t], answer, Len(answer), now) IN
                /\ Content(st.rows) = Content(games)
                /\ st.any_local_changes = any_local_changes[t]

C20_Witness ==
    /\ pc[MainThread] = "finally" /\ outcome[MainThread] = "synced"
    /\ Len(json[MainThread]) = 2
    /\ json[MainThread][1] # json[MainThread][2]
    /\ any_local_changes[MainThread]
    /\ \E l1, l2 \in log[MainThread] :
          /\ l1.i = 1 /\ l1.op = "update" /\ l1.after = <<3, 2>>
          /\ l2.i = 2 /\ l2.op = "update" /\ l2.after = <<3, 3>> /\ l2.id = l1.id

====
